---------------------------- MODULE Spec2Model ----------------------------
(***************************************************************************)
(* Model of the planilla download pipeline:                                *)
(*   src/drive_downloader.py              extraer_id_drive, descargar, ... *)
(*   src/backend/logic/core/processor.py  PlanillaProcessor (with callback)*)
(*   src/src/core/processor.py            PlanillaProcessor (CLI variant)  *)
(* Python strings are sequences of one-character strings; None, float and  *)
(* str values are records tagged with their Python type.                   *)
(***************************************************************************)
EXTENDS Integers, Sequences, FiniteSets, TLC

VARIABLES
    link_arg,      \* argument handed to extraer_id_drive (SpecLink)
    link_ret,      \* what extraer_id_drive returned, or NotCalled
    pure_call,     \* one call of a pure helper (SpecPure): [fn, arg, ret]
    app_imports,   \* app.py: which src package its imports resolved to
    tasks_status,  \* app.py: the global dict task_id -> TaskProgress
    task_run,      \* app.py: one run_processor_task per task: position and locals
    impl,          \* which PlanillaProcessor runs: "backend" or "cli"
    has_callback,  \* self._progress_callback is set
    env,           \* the disk before the run: creatable folders, the Excel file
    pc,            \* position of procesar / descargar
    exc,           \* the exception in flight, or NoExc
    df,            \* the DataFrame read by cargar_excel
    total,         \* procesar: total
    exitos,        \* procesar: exitos
    fallos,        \* procesar: fallos
    idx,           \* iterrows position: rows finished so far, the index i of the current row
    loc,           \* procesar: locals of the current iteration
    dl,            \* descargar: locals of the call in progress, NoCall outside it
    reqs,          \* GET requests issued for the current row, in order
    calls,         \* invocations of the progress callback, in order
    log,           \* procesar's per-row log records, in order
    fs,            \* files and folders under output_dir: path -> content
    resumen        \* the summary procesar produced, or PyNone

lvars == <<link_arg, link_ret>>
pvars == <<pure_call>>
tvars == <<app_imports, tasks_status, task_run>>
bvars == <<impl, has_callback, env, pc, exc, df, total, exitos, fallos, idx,
           loc, dl, reqs, calls, log, fs, resumen>>
vars == <<lvars, pvars, tvars, bvars>>

---------------------------------------------------------------------------
(* Python values *)

PyNone == [type |-> "NoneType"]
PyNaN == [type |-> "float"]
PyStr(s) == [type |-> "str", s |-> s]

\* bool(v) is False: None and the empty string
Falsy(v) == v.type = "NoneType" \/ (v.type = "str" /\ v.s = <<>>)

Whitespace == {" "}

\* s[k:k+len(sub)] == sub   (k is 1-based)
MatchAt(s, sub, k) ==
    /\ k >= 1
    /\ k + Len(sub) - 1 <= Len(s)
    /\ \A j \in 1..Len(sub) : s[k + j - 1] = sub[j]

\* sub in s
Contains(s, sub) == \E k \in 1..(Len(s) + 1) : MatchAt(s, sub, k)

\* s.startswith(p)
StartsWith(s, p) == MatchAt(s, p, 1)

\* str.split(sep): scans left to right, k is the scan position and start
\* the first character of the piece being collected
RECURSIVE SplitFrom(_, _, _, _)
SplitFrom(s, sep, k, start) ==
    IF k + Len(sep) - 1 > Len(s)
    THEN <<SubSeq(s, start, Len(s))>>
    ELSE IF MatchAt(s, sep, k)
         THEN <<SubSeq(s, start, k - 1)>> \o SplitFrom(s, sep, k + Len(sep), k + Len(sep))
         ELSE SplitFrom(s, sep, k + 1, start)

Split(s, sep) == SplitFrom(s, sep, 1, 1)

\* str.strip(chars)
RECURSIVE LStrip(_, _)
LStrip(s, chars) ==
    IF s # <<>> /\ Head(s) \in chars THEN LStrip(Tail(s), chars) ELSE s

RECURSIVE RStrip(_, _)
RStrip(s, chars) ==
    IF s # <<>> /\ s[Len(s)] \in chars THEN RStrip(SubSeq(s, 1, Len(s) - 1), chars) ELSE s

Strip(s, chars) == RStrip(LStrip(s, chars), chars)

---------------------------------------------------------------------------
(* drive_downloader.extraer_id_drive *)

IdEq == <<"i", "d", "=">>
SlashD == <<"/", "d", "/">>
Slash == <<"/">>

\* link.split("id=")[0] instead of [1]
TokenAfterIdEq_first(s) == Split(s, IdEq)[1]

\* link.split("id=")[1]
TokenAfterIdEq(s) == Split(s, IdEq)[2]

\* the /d/ piece without cutting at the next "/"
TokenAfterSlashD_uncut(s) == Split(s, SlashD)[2]

\* link.split("/d/")[1].split("/")[0]
TokenAfterSlashD(s) == Split(Split(s, SlashD)[2], Slash)[1]

\* not isinstance(link, str) or not link.strip()
IsBlankLink(link) == link.type # "str" \/ Strip(link.s, Whitespace) = <<>>

\* an unrecognised link handed back as if it were the id
extraer_id_drive_passthrough(link) ==
    IF IsBlankLink(link) THEN PyNone
    ELSE IF Contains(link.s, IdEq) THEN PyStr(TokenAfterIdEq(link.s))
    ELSE IF Contains(link.s, SlashD) THEN PyStr(TokenAfterSlashD(link.s))
    ELSE link

extraer_id_drive(link) ==
    IF IsBlankLink(link) THEN PyNone
    ELSE IF Contains(link.s, IdEq) THEN PyStr(TokenAfterIdEq(link.s))
    ELSE IF Contains(link.s, SlashD) THEN PyStr(TokenAfterSlashD(link.s))
    ELSE PyNone

---------------------------------------------------------------------------
(* More of Python's str and pathlib *)

LowerCase == <<"a", "b", "c", "d", "e", "f", "g", "h", "i", "j", "k", "l", "m", "n", "o", "p", "q", "r", "s", "t", "u", "v", "w", "x", "y", "z">>
UpperCase == <<"A", "B", "C", "D", "E", "F", "G", "H", "I", "J", "K", "L", "M", "N", "O", "P", "Q", "R", "S", "T", "U", "V", "W", "X", "Y", "Z">>

\* position of c in seq, 0 when absent
IndexOf(seq, c) == IF \E j \in 1..Len(seq) : seq[j] = c
                   THEN CHOOSE j \in 1..Len(seq) : seq[j] = c
                   ELSE 0

UpperChar(c) == IF IndexOf(LowerCase, c) = 0 THEN c ELSE UpperCase[IndexOf(LowerCase, c)]
LowerChar(c) == IF IndexOf(UpperCase, c) = 0 THEN c ELSE LowerCase[IndexOf(UpperCase, c)]

\* str.upper(), str.lower()
Upper(s) == [j \in 1..Len(s) |-> UpperChar(s[j])]
Lower(s) == [j \in 1..Len(s) |-> LowerChar(s[j])]

\* str(v), also what an f-string makes of v
StrOf(v) == IF v.type = "str" THEN v.s
            ELSE IF v.type = "float" THEN <<"n", "a", "n">>
            ELSE <<"N", "o", "n", "e">>

\* str.rfind("."), 1-based, 0 when there is no dot
RFindDot(name) == IF \E j \in 1..Len(name) : name[j] = "."
                  THEN CHOOSE j \in 1..Len(name) :
                          name[j] = "." /\ \A h \in (j + 1)..Len(name) : name[h] # "."
                  ELSE 0

\* PurePath.suffix of a file name: name[i:] when 0 < i < len(name) - 1 (0-based i)
NameSuffix(name) ==
    LET i == RFindDot(name)
    IN  IF 1 < i /\ i < Len(name) THEN SubSeq(name, i, Len(name)) ELSE <<>>

\* PurePath.with_suffix on the file name
NameWithSuffix(name, suffix) ==
    SubSeq(name, 1, Len(name) - Len(NameSuffix(name))) \o suffix

\* a path under output_dir: the folder and the file name in it
WithSuffix(path, suffix) == [dir |-> path.dir, name |-> NameWithSuffix(path.name, suffix)]

\* PurePath(s).name: the last component, empty and "." components dropped
RECURSIVE LastComponent(_)
LastComponent(parts) ==
    IF parts = <<>> THEN <<>>
    ELSE IF parts[Len(parts)] \in {<<>>, <<".">>}
         THEN LastComponent(SubSeq(parts, 1, Len(parts) - 1))
         ELSE parts[Len(parts)]

PathName(s) == LastComponent(Split(s, Slash))

DotTmp == <<".", "t", "m", "p">>
DotPdf == <<".", "p", "d", "f">>
DotJpg == <<".", "j", "p", "g">>
DotPng == <<".", "p", "n", "g">>
DotXlsx == <<".", "x", "l", "s", "x">>

---------------------------------------------------------------------------
(* Exceptions: the classes the code raises and catches, each with its bases
   (requests.exceptions.RequestException derives from IOError, that is
   OSError; PIL.UnidentifiedImageError derives from OSError) *)

Bases(cls) ==
    CASE cls = "DownloadError" -> {"DownloadError", "Exception"}
      [] cls = "ConfigError" -> {"ConfigError", "Exception"}
      [] cls = "HTTPError" -> {"HTTPError", "RequestException", "OSError", "Exception"}
      [] cls = "ConnectionError" -> {"ConnectionError", "RequestException", "OSError", "Exception"}
      [] cls = "ChunkedEncodingError" -> {"ChunkedEncodingError", "RequestException", "OSError", "Exception"}
      [] cls = "PermissionError" -> {"PermissionError", "OSError", "Exception"}
      [] cls = "FileExistsError" -> {"FileExistsError", "OSError", "Exception"}
      [] cls = "UnidentifiedImageError" -> {"UnidentifiedImageError", "OSError", "Exception"}
      [] cls = "BadZipFile" -> {"BadZipFile", "Exception"}
      [] OTHER -> {cls, "Exception"}

\* isinstance(<exception of class cls>, base)
IsInstance(cls, base) == base \in Bases(cls)

NoExc == [type |-> "none"]

\* raise <type>(<text> about <arg>) from <cause>
Raised(type, text, arg, cause) == [type |-> type, text |-> text, arg |-> arg, cause |-> cause]

\* str(exc): the message the exception was built with
StrOfExc(e) == [text |-> e.text, arg |-> e.arg]

---------------------------------------------------------------------------
(* drive_downloader: cookies, headers, magic numbers *)

DownloadWarning == <<"d", "o", "w", "n", "l", "o", "a", "d", "_", "w", "a", "r", "n", "i", "n", "g">>
FilenameEq == <<"f", "i", "l", "e", "n", "a", "m", "e", "=">>
Semicolon == <<";">>
Quotes == {"\"", "'"}

\* obtener_token_confirmacion: the value of the first cookie whose name
\* starts with download_warning
RECURSIVE obtener_token_confirmacion(_)
obtener_token_confirmacion(cookies) ==
    IF cookies = <<>> THEN PyNone
    ELSE IF StartsWith(Head(cookies).key, DownloadWarning) THEN PyStr(Head(cookies).value)
    ELSE obtener_token_confirmacion(Tail(cookies))

\* response.headers.get("Content-Disposition", "")
ContentDisposition(response) ==
    IF response.content_disposition.type = "str" THEN response.content_disposition.s ELSE <<>>

\* the one element of a singleton
Only(S) == CHOOSE x \in S : TRUE

\* extraer_extension_de_respuesta; each intermediate of the source is bound
\* once: partes[1], nombre_archivo, Path(nombre_archivo).name, its suffix
extraer_extension_de_respuesta(response) ==
    IF /\ Contains(ContentDisposition(response), FilenameEq)
       /\ Len(Split(ContentDisposition(response), FilenameEq)) > 1
    THEN Only({PyStr(Lower(suffix)) :
                suffix \in {NameSuffix(nombre) :
                    nombre \in {PathName(nombre_archivo) :
                        nombre_archivo \in {Strip(primero, Quotes) :
                            primero \in {Split(parte, Semicolon)[1] :
                                parte \in {Split(cd, FilenameEq)[2] :
                                    cd \in {ContentDisposition(response)}}}}}}})
    ELSE PyNone

MagicPdf == <<37, 80, 68, 70>>
MagicJpg == <<255, 216>>
MagicPng == <<137, 80, 78, 71>>
MagicZip == <<80, 75, 3, 4>>

\* f.read(2): too short a read for the four-byte signatures
Firma_2(bytes) == SubSeq(bytes, 1, IF Len(bytes) < 2 THEN Len(bytes) ELSE 2)

\* f.read(8)
Firma(bytes) == SubSeq(bytes, 1, IF Len(bytes) < 8 THEN Len(bytes) ELSE 8)

\* detectar_extension_por_contenido, once the file has been read
detectar_extension_por_contenido(bytes) ==
    LET firma == Firma(bytes)
    IN  IF StartsWith(firma, MagicPdf) THEN DotPdf
        ELSE IF StartsWith(firma, MagicJpg) THEN DotJpg
        ELSE IF StartsWith(firma, MagicPng) THEN DotPng
        ELSE IF StartsWith(firma, MagicZip) THEN DotXlsx
        ELSE <<>>

---------------------------------------------------------------------------
(* models/config.py: DownloadConfig defaults, and the run's inputs *)

OsdeSubdir == "OSDE"
NonOsdeSubdir == "NO es osde"
NombreCol == "NOMBRE Y APELLIDO"
CategoriaCol == "osde - no osde"
LinkCol == "planilla"
ColumnasObligatorias == {NombreCol, CategoriaCol, LinkCol}

\* f"planilla de asistencia {mes} " for mes = "diciembre"
PrefijoArchivo == <<"p", "l", "a", "n", "i", "l", "l", "a", " ", "d", "e", " ", "a", "s", "i", "s", "t", "e", "n", "c", "i", "a", " ", "d", "i", "c", "i", "e", "m", "b", "r", "e", " ">>

TextOSDE == <<"O", "S", "D", "E">>
TextNO == <<"N", "O">>

MaxRows == 2

FilaAna == [c \in ColumnasObligatorias |->
              CASE c = NombreCol -> PyStr(<<"a", "n", "a">>)
                [] c = CategoriaCol -> PyStr(<<"O", "S", "D", "E">>)
                [] OTHER -> PyStr(<<"/", "d", "/", "F", "1", "/", "v">>)]
FilaLuz == [c \in ColumnasObligatorias |->
              CASE c = NombreCol -> PyStr(<<"l", ".", "r">>)
                [] c = CategoriaCol -> PyStr(<<"n", "o", " ", "o", "s", "d", "e">>)
                [] OTHER -> PyStr(<<"u", "?", "i", "d", "=", "F", "2">>)]
\* a second name that differs from FilaLuz's only after its last dot
FilaLux == [c \in ColumnasObligatorias |->
              CASE c = NombreCol -> PyStr(<<"l", ".", "x">>)
                [] c = CategoriaCol -> PyStr(<<"n", "o", " ", "o", "s", "d", "e">>)
                [] OTHER -> PyStr(<<"u", "?", "i", "d", "=", "F", "3">>)]
FilaSinLink == [c \in ColumnasObligatorias |->
              CASE c = NombreCol -> PyStr(<<"e", "v", "a">>)
                [] c = CategoriaCol -> PyStr(<<"O", "s", "d", "e">>)
                [] OTHER -> PyStr(<<"n", "o", "l", "i", "n", "k">>)]
FilaVacia == [c \in ColumnasObligatorias |->
              CASE c = NombreCol -> PyStr(<<"n", "o", "e">>)
                [] c = CategoriaCol -> PyNaN
                [] OTHER -> PyNaN]
FilaIdVacio == [c \in ColumnasObligatorias |->
              CASE c = NombreCol -> PyStr(<<"i", "v", "o">>)
                [] c = CategoriaCol -> PyStr(<<"o", "s", "d", "e">>)
                [] OTHER -> PyStr(<<"u", "?", "i", "d", "=">>)]

Filas == {FilaAna, FilaLuz, FilaLux, FilaSinLink, FilaVacia, FilaIdVacio}

Tablas == UNION {[1..n -> Filas] : n \in 0..MaxRows}

\* the columns a workbook may carry: all three, or some missing
ColumnSets == {ColumnasObligatorias, {NombreCol, CategoriaCol}, {LinkCol}}

Restrict(f, cols) == [c \in cols |-> f[c]]

ExcelFiles ==
    {[state |-> "missing"], [state |-> "unreadable"]}
        \cup {[state |-> "ok", columns |-> cols,
               rows |-> [j \in 1..Len(tb) |-> Restrict(tb[j], cols)]] :
                 cols \in ColumnSets, tb \in Tablas}

\* which of the two output folders cannot be created ("none": both can)
MkdirFaults == {"none", OsdeSubdir, NonOsdeSubdir}

Envs == {[mkdir_fail |-> m, excel |-> x] : m \in MkdirFaults, x \in ExcelFiles}

---------------------------------------------------------------------------
(* What the network and the disk may answer *)

CookieNID == [key |-> <<"N", "I", "D">>, value |-> <<"7">>]
CookieWarning == [key |-> DownloadWarning \o <<"_", "x">>, value |-> <<"t", "0">>]
CookieWarningEmpty == [key |-> DownloadWarning \o <<"_", "x">>, value |-> <<>>]

CookieJars == {<<>>, <<CookieNID, CookieWarning>>, <<CookieWarningEmpty>>}

HeaderPng == <<"i", "n", "l", "i", "n", "e", ";", " ", "f", "i", "l", "e", "n", "a", "m", "e", "=", "\"", "b", ".", "P", "N", "G", "\"", ";", " ", "s", "i", "z", "e", "=", "1">>

\* a file name without an extension
HeaderSinExt == <<"a", "t", "t", "a", "c", "h", "m", "e", "n", "t", ";", " ", "f", "i", "l", "e", "n", "a", "m", "e", "=", "\"", "b", "\"">>

Headers == {PyNone, PyStr(HeaderPng), PyStr(HeaderSinExt)}

BodyPdf == <<37, 80, 68, 70, 45, 49>>
BodyJpg == <<255, 216, 255>>
BodyText == <<104, 111, 108, 97>>

BodyZip == <<80, 75, 3, 4, 20>>

Bodies == {BodyPdf, BodyJpg, BodyText, BodyZip}

Responses == {[cookies |-> c, content_disposition |-> h, body |-> b] :
                c \in CookieJars, h \in Headers, b \in Bodies}

\* session.get(...) followed by raise_for_status(): a transport error, a
\* non-success status, or a response
GetOutcomes ==
    {[raises |-> e] : e \in {"ConnectionError", "HTTPError"}}
        \cup {[raises |-> "none", response |-> r] : r \in Responses}

\* open(temp_path, "wb") and the chunk loop: open fails (nothing created),
\* the stream breaks or the disk write fails (file created, body not written)
WriteOutcomes ==
    {[raises |-> "none"],
     [raises |-> "PermissionError", created |-> FALSE],
     [raises |-> "ChunkedEncodingError", created |-> TRUE],
     [raises |-> "OSError", created |-> TRUE]}

\* open(ruta_archivo, "rb") / f.read(8)
ReadOutcomes == {"none", "PermissionError"}

\* Path.rename
RenameOutcomes == {"none", "PermissionError"}

\* Path.unlink
UnlinkOutcomes == {"none", "PermissionError"}

\* Image.open / convert / save: an undecodable image, or a failed save that
\* may leave a partial destination file behind
ConvertOutcomes ==
    {[raises |-> "none"],
     [raises |-> "UnidentifiedImageError", partial |-> FALSE],
     [raises |-> "OSError", partial |-> FALSE],
     [raises |-> "OSError", partial |-> TRUE]}

\* Pillow decodes by content: only image bytes can be opened
IsImage(bytes) == StartsWith(bytes, MagicJpg) \/ StartsWith(bytes, MagicPng)

Dir == [kind |-> "dir"]
Raw(bytes) == [kind |-> "raw", bytes |-> bytes]
PdfOf(bytes) == [kind |-> "pdf", image |-> bytes]
Partial == [kind |-> "partial"]

FsPut(f, path, content) ==
    [q \in DOMAIN f \cup {path} |-> IF q = path THEN content ELSE f[q]]
FsRemove(f, path) == [q \in DOMAIN f \ {path} |-> f[q]]
Exists(f, path) == path \in DOMAIN f

FolderPath(subdir) == [dir |-> subdir, name |-> <<>>]

---------------------------------------------------------------------------
(* core/processor.py: helpers of procesar *)

\* the test for "NO" left out
seleccionar_carpeta_destino_sinNO(categoria_valor, osde_path, no_osde_path) ==
    IF Contains(Upper(StrOf(categoria_valor)), TextOSDE) THEN osde_path ELSE no_osde_path

\* seleccionar_carpeta_destino
seleccionar_carpeta_destino(categoria_valor, osde_path, no_osde_path) ==
    LET categoria == Upper(StrOf(categoria_valor))
    IN  IF Contains(categoria, TextOSDE) /\ ~Contains(categoria, TextNO)
        THEN osde_path
        ELSE no_osde_path

\* the exception classes named by the except clauses
CatchMkdir_narrow == "PermissionError"
CatchMkdir == "OSError"
CatchReadExcel == "Exception"
CatchIniciar == "RequestException"
CatchConfirmar == "RequestException"
CatchEscritura_narrow == "PermissionError"
CatchEscritura == "OSError"
CatchDetectar == "OSError"
CatchFinal == "Exception"
CatchProcesar == "DownloadError"

\* try: ... except <base> as exc: raise <wrapped> from exc
\* an exception of another class passes through unchanged
Except(cls, base, wrapped) ==
    IF IsInstance(cls, base) THEN wrapped ELSE Raised(cls, "", PyNone, "none")

\* fallos += 1 forgotten in the except branch
FallosTrasError_olvidado(n) == n

\* fallos += 1
FallosTrasError(n) == n + 1

\* the callback handed i instead of i + 1
CallbackCurrent_i(i) == i

\* first argument of the callback: i + 1
CallbackCurrent(i) == i + 1

\* the message of the exception dropped in the except branch
MensajeDeError_omitido(e) == PyNone

\* error_msg = str(exc)
MensajeDeError(e) == StrOfExc(e)

\* exitos += 1 forgotten after descargar returned
ExitosTrasGuardado_olvidado(n) == n

\* exitos += 1
ExitosTrasGuardado(n) == n + 1

\* if not file_id
SinId(file_id) == Falsy(file_id)

\* the byte sniff run whatever the header gave
SinExtension_siempre(extension_orig) == TRUE

\* if not extension_orig
SinExtension(extension_orig) == Falsy(extension_orig)

NoLocals == [set |-> FALSE]
NoCall == [set |-> FALSE]

---------------------------------------------------------------------------
(* PlanillaProcessor.procesar and GoogleDriveDownloader.descargar, one
   action per step that touches the disk, the network or the callback *)

BatchInit ==
    /\ impl \in {"backend", "cli"}
    /\ has_callback = (impl = "backend")
    /\ env \in Envs
    /\ pc = "start"
    /\ exc = NoExc
    /\ df = <<>>
    /\ total = 0
    /\ exitos = 0
    /\ fallos = 0
    /\ idx = 0
    /\ loc = NoLocals
    /\ dl = NoCall
    /\ reqs = <<>>
    /\ calls = <<>>
    /\ log = <<>>
    /\ fs = <<>>
    /\ resumen = PyNone

\* preparar_carpetas: mkdir of the two folders, OSDE first
PrepararCarpetas ==
    /\ pc = "start"
    /\ IF env.mkdir_fail = "none"
       THEN /\ fs' = FsPut(FsPut(fs, FolderPath(OsdeSubdir), Dir), FolderPath(NonOsdeSubdir), Dir)
            /\ pc' = "cargar"
            /\ exc' = NoExc
       ELSE /\ fs' = IF env.mkdir_fail = NonOsdeSubdir
                     THEN FsPut(fs, FolderPath(OsdeSubdir), Dir)
                     ELSE fs
            /\ pc' = "raised"
            /\ exc' = Except("FileExistsError", CatchMkdir,
                             Raised("ConfigError", "No se pudo crear la carpeta",
                                    env.mkdir_fail, "FileExistsError"))
    /\ UNCHANGED <<lvars, pvars, tvars, impl, has_callback, env, df, total, exitos, fallos, idx,
                   loc, dl, reqs, calls, log, resumen>>

\* columnas_obligatorias.difference(df.columns)
Faltantes(columns) == ColumnasObligatorias \ columns

\* cargar_excel, then procesar's counters (total, exitos, fallos)
CargarExcel ==
    /\ pc = "cargar"
    /\ IF env.excel.state = "missing"
       THEN /\ exc' = Raised("ConfigError", "No se encontro el archivo de Excel", PyNone, "none")
            /\ pc' = "raised"
            /\ UNCHANGED <<df, total>>
       ELSE IF env.excel.state = "unreadable"
       THEN /\ exc' = Except("BadZipFile", CatchReadExcel,
                             Raised("ConfigError", "No se pudo leer el archivo de Excel",
                                    PyNone, "BadZipFile"))
            /\ pc' = "raised"
            /\ UNCHANGED <<df, total>>
       ELSE IF Faltantes(env.excel.columns) # {}
       THEN /\ exc' = Raised("ConfigError", "Faltan columnas obligatorias",
                             Faltantes(env.excel.columns), "none")
            /\ pc' = "raised"
            /\ UNCHANGED <<df, total>>
       ELSE /\ df' = env.excel.rows
            /\ total' = Len(env.excel.rows)
            /\ pc' = "loop"
            /\ exc' = NoExc
    /\ exitos' = 0
    /\ fallos' = 0
    /\ idx' = 0
    /\ UNCHANGED <<lvars, pvars, tvars, impl, has_callback, env, loc, dl, reqs, calls, log, fs, resumen>>

OsdePath == OsdeSubdir
NoOsdePath == NonOsdeSubdir

\* the head of one iteration: read the row, classify, resolve the link
IniciarFila ==
    /\ pc = "loop"
    /\ idx < total
    /\ LET row == df[idx + 1]
           nombre == row[NombreCol]
           categoria_valor == row[CategoriaCol]
           link == row[LinkCol]
           file_id == extraer_id_drive(link)
           \* the CLI variant classifies only after the link is resolved
           clasifica == impl = "backend" \/ ~SinId(file_id)
           carpeta_destino == IF clasifica
                              THEN seleccionar_carpeta_destino(categoria_valor, OsdePath, NoOsdePath)
                              ELSE "unset"
           category_label == IF impl = "backend"
                             THEN (IF carpeta_destino = OsdePath THEN "OSDE" ELSE "NO OSDE")
                             ELSE "unset"
           sin_link == [text |-> "No se pudo leer el link de la planilla para", arg |-> nombre]
       IN  IF SinId(file_id)
           THEN /\ loc' = [set |-> TRUE, nombre |-> nombre, categoria_valor |-> categoria_valor,
                           link |-> link, file_id |-> file_id,
                           carpeta_destino |-> carpeta_destino, category_label |-> category_label,
                           status |-> "error", error_msg |-> sin_link]
                /\ log' = Append(log, [level |-> "warning", nombre |-> nombre, msg |-> sin_link])
                /\ fallos' = fallos + 1
                /\ dl' = NoCall
                /\ pc' = "report"
           ELSE /\ loc' = [set |-> TRUE, nombre |-> nombre, categoria_valor |-> categoria_valor,
                           link |-> link, file_id |-> file_id,
                           carpeta_destino |-> carpeta_destino, category_label |-> category_label,
                           status |-> "success", error_msg |-> PyNone]
                /\ dl' = [set |-> TRUE, file_id |-> file_id,
                          destino_base |-> [dir |-> carpeta_destino,
                                            name |-> PrefijoArchivo \o StrOf(nombre)],
                          response |-> PyNone, token |-> PyNone,
                          extension_orig |-> PyNone]
                /\ pc' = "d_get1"
                /\ UNCHANGED <<log, fallos>>
    /\ UNCHANGED <<lvars, pvars, tvars, impl, has_callback, env, exc, df, total, exitos, idx,
                   reqs, calls, fs, resumen>>

\* if not token
SinToken(token) == Falsy(token)

\* descargar: the empty-id guard, then _obtener_respuesta's first GET
PedirDescarga ==
    /\ pc = "d_get1"
    /\ IF Falsy(dl.file_id)
       THEN /\ exc' = Raised("DownloadError", "ID de archivo vacio o nulo", PyNone, "none")
            /\ pc' = "d_raised"
            /\ dl' = NoCall
            /\ UNCHANGED reqs
       ELSE \E o \in GetOutcomes :
            /\ reqs' = Append(reqs, [id |-> dl.file_id, confirm |-> PyNone])
            /\ IF o.raises # "none"
               THEN /\ exc' = Except(o.raises, CatchIniciar,
                                     Raised("DownloadError", "No se pudo iniciar la descarga para",
                                            dl.file_id, o.raises))
                    /\ pc' = "d_raised"
                    /\ dl' = NoCall
               ELSE LET token == obtener_token_confirmacion(o.response.cookies)
                    IN  \* with a token the first response is never read again
                        /\ dl' = [dl EXCEPT !.response = IF SinToken(token) THEN o.response
                                                          ELSE PyNone,
                                             !.token = token]
                        /\ pc' = IF SinToken(token) THEN "d_write" ELSE "d_get2"
                        /\ exc' = NoExc
    /\ UNCHANGED <<lvars, pvars, tvars, impl, has_callback, env, df, total, exitos, fallos, idx,
                   loc, calls, log, fs, resumen>>

\* _obtener_respuesta: the second GET, with confirm=<token>
ConfirmarDescarga ==
    /\ pc = "d_get2"
    /\ \E o \in GetOutcomes :
            /\ reqs' = Append(reqs, [id |-> dl.file_id, confirm |-> dl.token])
            /\ IF o.raises # "none"
               THEN /\ exc' = Except(o.raises, CatchConfirmar,
                                     Raised("DownloadError", "No se pudo confirmar la descarga para",
                                            dl.file_id, o.raises))
                    /\ pc' = "d_raised"
                    /\ dl' = NoCall
               ELSE \* the cookies of the second response are never read
                    /\ dl' = [dl EXCEPT !.response = [o.response EXCEPT !.cookies = <<>>]]
                    /\ pc' = "d_write"
                    /\ exc' = NoExc
    /\ UNCHANGED <<lvars, pvars, tvars, impl, has_callback, env, df, total, exitos, fallos, idx,
                   loc, calls, log, fs, resumen>>

\* destino_base.with_suffix(".tmp") and destino_base.with_suffix(".pdf")
TempPath(call) == WithSuffix(call.destino_base, DotTmp)
DestinoFinal(call) == WithSuffix(call.destino_base, DotPdf)

\* descargar steps 1 and 2: the header's extension, then the body streamed
\* into the temporary file
EscribirTemporal ==
    /\ pc = "d_write"
    /\ \E o \in WriteOutcomes :
            IF o.raises = "none"
            THEN /\ fs' = FsPut(fs, TempPath(dl), Raw(dl.response.body))
                 \* the response is not read again once the body is on disk
                 /\ dl' = [dl EXCEPT !.extension_orig = extraer_extension_de_respuesta(dl.response),
                                      !.response = PyNone]
                 /\ pc' = "d_sniff"
                 /\ exc' = NoExc
            ELSE /\ fs' = IF o.created THEN FsPut(fs, TempPath(dl), Raw(<<>>)) ELSE fs
                 /\ exc' = Except(o.raises, CatchEscritura,
                                  Raised("DownloadError", "No se pudo escribir el archivo temporal en",
                                         TempPath(dl), o.raises))
                 /\ pc' = "d_raised"
                 /\ dl' = NoCall
    /\ UNCHANGED <<lvars, pvars, tvars, impl, has_callback, env, df, total, exitos, fallos, idx,
                   loc, reqs, calls, log, resumen>>

\* descargar step 3: the magic numbers when the header gave nothing, and
\* the .pdf default
DetectarExtension ==
    /\ pc = "d_sniff"
    /\ IF SinExtension(dl.extension_orig)
       THEN \E r \in ReadOutcomes :
            IF r = "none"
            THEN LET ext == detectar_extension_por_contenido(fs[TempPath(dl)].bytes)
                 IN  /\ dl' = [dl EXCEPT !.extension_orig =
                                  IF Falsy(PyStr(ext)) THEN PyStr(DotPdf) ELSE PyStr(ext)]
                     /\ pc' = "d_final"
                     /\ exc' = NoExc
            ELSE /\ exc' = Except(r, CatchDetectar,
                                  Raised("DownloadError", "No se pudo detectar el tipo de archivo",
                                         PyNone, r))
                 /\ pc' = "d_raised"
                 /\ dl' = NoCall
       ELSE /\ pc' = "d_final"
            /\ exc' = NoExc
            /\ UNCHANGED dl
    /\ UNCHANGED <<lvars, pvars, tvars, impl, has_callback, env, df, total, exitos, fallos, idx,
                   loc, reqs, calls, log, fs, resumen>>

\* the bytes copied to the destination, the temporary file left in place
Renombrar_copia(f, call) == FsPut(f, DestinoFinal(call), f[TempPath(call)])

\* temp_path.rename(destino_final): the destination is replaced
Renombrar(f, call) ==
    FsRemove(FsPut(f, DestinoFinal(call), f[TempPath(call)]), TempPath(call))

\* descargar returned destino_final: procesar counts the success
GuardadoExitoso ==
    /\ log' = Append(log, [level |-> "info", nombre |-> loc.nombre,
                           msg |-> [text |-> "Operacion de guardado exitosa",
                                    arg |-> DestinoFinal(dl)]])
    /\ exitos' = ExitosTrasGuardado(exitos)
    /\ pc' = "report"
    /\ exc' = NoExc
    /\ dl' = NoCall

\* step 4 failed with an exception of class cls and the disk is f: the
\* except branch unlinks the temporary file if it exists, then raises
\* DownloadError; an unlink that fails there raises out of the handler
FalloFinal(cls, f) ==
    /\ IF IsInstance(cls, CatchFinal) /\ Exists(f, TempPath(dl))
       THEN \E u \in UnlinkOutcomes :
            IF u = "none"
            THEN /\ fs' = FsRemove(f, TempPath(dl))
                 /\ exc' = Raised("DownloadError", "No se pudo guardar el archivo final en",
                                  DestinoFinal(dl), cls)
            ELSE /\ fs' = f
                 /\ exc' = Raised(u, "unlink", TempPath(dl), "none")
       ELSE /\ fs' = f
            /\ exc' = Except(cls, CatchFinal,
                             Raised("DownloadError", "No se pudo guardar el archivo final en",
                                    DestinoFinal(dl), cls))
    /\ pc' = "d_raised"
    /\ dl' = NoCall
    /\ UNCHANGED <<log, exitos>>

\* descargar step 4: rename a .pdf, convert a .jpg/.png, rename anything else
Finalizar ==
    /\ pc = "d_final"
    /\ IF dl.extension_orig.s \in {DotJpg, DotPng}
       THEN \E o \in ConvertOutcomes :
            /\ o.raises = "UnidentifiedImageError" \/ IsImage(fs[TempPath(dl)].bytes)
            /\ IF o.raises = "none"
               THEN \* saved; temp_path.unlink() is still inside the try
                    \E u \in UnlinkOutcomes :
                    IF u = "none"
                    THEN /\ fs' = FsRemove(FsPut(fs, DestinoFinal(dl),
                                                 PdfOf(fs[TempPath(dl)].bytes)),
                                           TempPath(dl))
                         /\ GuardadoExitoso
                    ELSE FalloFinal(u, FsPut(fs, DestinoFinal(dl),
                                             PdfOf(fs[TempPath(dl)].bytes)))
               ELSE FalloFinal(o.raises,
                               IF o.partial THEN FsPut(fs, DestinoFinal(dl), Partial) ELSE fs)
       ELSE \E r \in RenameOutcomes :
            IF r = "none"
            THEN /\ fs' = Renombrar(fs, dl)
                 /\ GuardadoExitoso
            ELSE FalloFinal(r, fs)
    /\ UNCHANGED <<lvars, pvars, tvars, impl, has_callback, env, df, total, fallos, idx,
                   loc, reqs, calls, resumen>>

\* procesar's except DownloadError; any other exception leaves procesar
ManejarError ==
    /\ pc = "d_raised"
    /\ IF IsInstance(exc.type, CatchProcesar)
       THEN /\ loc' = [loc EXCEPT !.status = "error", !.error_msg = MensajeDeError(exc)]
            /\ log' = Append(log, [level |-> "error", nombre |-> loc.nombre, msg |-> StrOfExc(exc)])
            /\ fallos' = FallosTrasError(fallos)
            /\ exc' = NoExc
            /\ pc' = "report"
       ELSE /\ pc' = "raised"
            /\ UNCHANGED <<loc, log, fallos, exc>>
    /\ UNCHANGED <<lvars, pvars, tvars, impl, has_callback, env, df, total, exitos, idx,
                   dl, reqs, calls, fs, resumen>>

\* the end of one iteration: the progress callback (or the bar), next row
Reportar ==
    /\ pc = "report"
    /\ calls' = IF has_callback
                THEN Append(calls, [current |-> CallbackCurrent(idx), total |-> total,
                                    item_name |-> loc.nombre, status |-> loc.status,
                                    error_msg |-> loc.error_msg, category |-> loc.category_label])
                ELSE calls
    /\ idx' = idx + 1
    /\ loc' = NoLocals
    /\ dl' = NoCall
    /\ reqs' = <<>>
    /\ pc' = "loop"
    /\ UNCHANGED <<lvars, pvars, tvars, impl, has_callback, env, exc, df, total, exitos, fallos,
                   log, fs, resumen>>

\* after the last row: the summary
Terminar ==
    /\ pc = "loop"
    /\ idx = total
    /\ resumen' = [total |-> total, exitos |-> exitos, fallos |-> fallos]
    /\ pc' = "returned"
    /\ UNCHANGED <<lvars, pvars, tvars, impl, has_callback, env, exc, df, total, exitos, fallos, idx,
                   loc, dl, reqs, calls, log, fs>>

LinkIdle == link_arg = PyNone /\ link_ret = [type |-> "not called"]

\* no pure helper is being exercised
PureIdle == pure_call = [fn |-> "none"]

\* the web service is not running
TasksIdle ==
    /\ app_imports = "none"
    /\ tasks_status = <<>>
    /\ task_run = <<>>

Init == BatchInit /\ LinkIdle /\ PureIdle /\ TasksIdle

Next ==
    \/ PrepararCarpetas
    \/ CargarExcel
    \/ IniciarFila
    \/ PedirDescarga
    \/ ConfirmarDescarga
    \/ EscribirTemporal
    \/ DetectarExtension
    \/ Finalizar
    \/ ManejarError
    \/ Reportar
    \/ Terminar

Spec == Init /\ [][Next]_vars

\* the batch variables while only extraer_id_drive is exercised
BatchIdle ==
    /\ impl = "backend" /\ has_callback = TRUE
    /\ env = [mkdir_fail |-> "none", excel |-> [state |-> "missing"]]
    /\ pc = "idle" /\ exc = NoExc /\ df = <<>>
    /\ total = 0 /\ exitos = 0 /\ fallos = 0 /\ idx = 0
    /\ loc = NoLocals /\ dl = NoCall
    /\ reqs = <<>> /\ calls = <<>> /\ log = <<>> /\ fs = <<>> /\ resumen = PyNone

---------------------------------------------------------------------------
(* Arguments of extraer_id_drive: every string over LinkAlphabet of at most
   MaxLinkLen characters, the links quoted in the specification, and the
   non-string cells pandas produces (None, NaN). *)

MaxLinkLen == 6
LinkAlphabet == {"i", "d", "=", "/", " ", "a"}

StringsUpTo(alphabet, n) == UNION {[1..m -> alphabet] : m \in 0..n}

LinkIdPlain == <<"h", "t", "t", "p", "s", ":", "/", "/", "x", "/", "u", "c", "?", "i", "d", "=", "A", "B", "C", "1", "2", "3">>
LinkIdAfterFoo == <<"h", "t", "t", "p", "s", ":", "/", "/", "x", "/", "u", "c", "?", "f", "o", "o", "=", "1", "&", "i", "d", "=", "A", "B", "C", "1", "2", "3">>
LinkSlashD == <<"h", "t", "t", "p", "s", ":", "/", "/", "d", "r", "i", "v", "e", ".", "e", "x", "a", "m", "p", "l", "e", ".", "c", "o", "m", "/", "f", "i", "l", "e", "/", "d", "/", "1", "a", "2", "b", "3", "c", "/", "v", "i", "e", "w">>
TokenABC123 == <<"A", "B", "C", "1", "2", "3">>
Token1a2b3c == <<"1", "a", "2", "b", "3", "c">>

ExampleLinks == {LinkIdPlain, LinkIdAfterFoo, LinkSlashD}

LinkArgs ==
    {PyNone, PyNaN}
        \cup {PyStr(s) : s \in StringsUpTo(LinkAlphabet, MaxLinkLen)}
        \cup {PyStr(s) : s \in ExampleLinks}

NotCalled == [type |-> "not called"]

LinkInit ==
    /\ link_arg \in LinkArgs
    /\ link_ret = NotCalled
    /\ PureIdle
    /\ TasksIdle
    /\ BatchIdle

\* one call of extraer_id_drive(link_arg)
LinkCall ==
    /\ link_ret = NotCalled
    /\ link_ret' = extraer_id_drive(link_arg)
    /\ UNCHANGED <<link_arg, pvars, tvars, bvars>>

LinkNext == LinkCall

SpecLink == LinkInit /\ [][LinkNext]_vars

---------------------------------------------------------------------------
(* Reference readings of a link, written with first-occurrence indices
   instead of str.split *)

\* least k >= from with s[k:] starting with sub, 0 when there is none
FirstIdx(s, sub, from) ==
    IF \E k \in from..Len(s) : MatchAt(s, sub, k)
    THEN CHOOSE k \in from..Len(s) :
            MatchAt(s, sub, k) /\ \A h \in from..(k - 1) : ~MatchAt(s, sub, h)
    ELSE 0

\* s from position a up to just before the next sub, or to the end
UpToNext(s, a, sub) ==
    LET b == FirstIdx(s, sub, a)
    IN  SubSeq(s, a, IF b = 0 THEN Len(s) ELSE b - 1)

AfterFirst(s, sub) == FirstIdx(s, sub, 1) + Len(sub)

LinkReturned == link_ret # NotCalled
LinkIsStr == link_arg.type = "str"

---------------------------------------------------------------------------
(* Claims about extraer_id_drive, checked under SpecLink *)

\* C8 (as stated): for every string link containing "id=", extraer_id_drive
\* returns everything after the first "id=" up to the end of the string.
C8_AsStated ==
    (LinkReturned /\ LinkIsStr /\ Contains(link_arg.s, IdEq)) =>
        link_ret = PyStr(SubSeq(link_arg.s, AfterFirst(link_arg.s, IdEq), Len(link_arg.s)))

\* C8 (amended): for every string link containing "id=", extraer_id_drive
\* returns the text after the first "id=" up to the next "id=", or up to the
\* end of the string when there is no other "id=" (also when the link
\* contains "/d/"); "...?id=ABC123" and "...?foo=1&id=ABC123" both give ABC123.
C8_IdToken ==
    /\ (LinkReturned /\ LinkIsStr /\ Contains(link_arg.s, IdEq)) =>
            link_ret = PyStr(UpToNext(link_arg.s, AfterFirst(link_arg.s, IdEq), IdEq))
    /\ (LinkReturned /\ link_arg \in {PyStr(LinkIdPlain), PyStr(LinkIdAfterFoo)}) =>
            link_ret = PyStr(TokenABC123)

\* a link with both shapes was resolved by its "id=" part to a non-empty token
C8_Witness ==
    /\ LinkReturned /\ LinkIsStr
    /\ Contains(link_arg.s, IdEq) /\ Contains(link_arg.s, SlashD)
    /\ link_ret.type = "str" /\ link_ret.s # <<>>

\* C9: for every string link without "id=" but with "/d/", extraer_id_drive
\* returns the segment between the first "/d/" and the next "/" (or the end
\* of the string), "1a2b3c" for the example link; a link that has both shapes
\* is read by its "id=" part, never by "/d/".
C9_SlashDToken ==
    /\ (LinkReturned /\ LinkIsStr /\ ~Contains(link_arg.s, IdEq) /\ Contains(link_arg.s, SlashD)) =>
            link_ret = PyStr(UpToNext(link_arg.s, AfterFirst(link_arg.s, SlashD), Slash))
    /\ (LinkReturned /\ link_arg = PyStr(LinkSlashD)) => link_ret = PyStr(Token1a2b3c)
    /\ (LinkReturned /\ LinkIsStr /\ Contains(link_arg.s, IdEq) /\ Contains(link_arg.s, SlashD)) =>
            link_ret = PyStr(UpToNext(link_arg.s, AfterFirst(link_arg.s, IdEq), IdEq))

\* a "/d/" link whose token is cut at a following "/"
C9_Witness ==
    /\ LinkReturned /\ LinkIsStr
    /\ ~Contains(link_arg.s, IdEq) /\ Contains(link_arg.s, SlashD)
    /\ link_ret.type = "str" /\ link_ret.s # <<>>
    /\ Len(link_ret.s) + AfterFirst(link_arg.s, SlashD) <= Len(link_arg.s)

\* C10: extraer_id_drive returns None for every non-string argument, for the
\* empty string and for every string with neither "id=" nor "/d/".
C10_NoneResult ==
    (LinkReturned /\ (~LinkIsStr \/ link_arg.s = <<>>
                        \/ (~Contains(link_arg.s, IdEq) /\ ~Contains(link_arg.s, SlashD)))) =>
        link_ret = PyNone

\* a non-blank string with neither marker was answered with None
C10_Witness ==
    /\ LinkReturned /\ LinkIsStr
    /\ Strip(link_arg.s, Whitespace) # <<>>
    /\ ~Contains(link_arg.s, IdEq) /\ ~Contains(link_arg.s, SlashD)
    /\ link_ret = PyNone

---------------------------------------------------------------------------
(* Claims about procesar and descargar, checked under Spec *)

\* the input table as it is on disk
Tabla == env.excel.rows

SetupFault ==
    \/ env.mkdir_fail # "none"
    \/ env.excel.state # "ok"
    \/ ~(ColumnasObligatorias \subseteq env.excel.columns)

Terminal == pc \in {"returned", "raised"}

\* a link with no resource id in it, read without extraer_id_drive
Unresolvable(link) ==
    \/ link.type # "str"
    \/ (~Contains(link.s, IdEq) /\ ~Contains(link.s, SlashD))
    \/ (Contains(link.s, IdEq)
            /\ UpToNext(link.s, AfterFirst(link.s, IdEq), IdEq) = <<>>)
    \/ (~Contains(link.s, IdEq) /\ Contains(link.s, SlashD)
            /\ UpToNext(link.s, AfterFirst(link.s, SlashD), Slash) = <<>>)

FilaSinId(j) == Unresolvable(Tabla[j][LinkCol])

Files == {q \in DOMAIN fs : fs[q].kind # "dir"}

LogFallos == {j \in 1..Len(log) : log[j].level # "info"}

\* C1: when procesar returns, exitos + fallos == total == number of rows of
\* the input table, whatever mix of outcomes the rows produced.
C1_ResumenCuadra ==
    pc = "returned" =>
        /\ resumen.exitos + resumen.fallos = resumen.total
        /\ resumen.total = Len(Tabla)

\* a run returned after a download failure, then a success
C1_Witness ==
    /\ pc = "returned"
    /\ resumen.total = 2 /\ resumen.exitos = 1 /\ resumen.fallos = 1
    /\ log[1].level = "error" /\ log[2].level = "info"

\* C2: no per-row failure aborts the batch: procesar raises only from its
\* setup steps, every state before the end has a next step, and when it
\* returns every row of the table has been handled, in order.
C2_NuncaAborta ==
    /\ pc = "raised" => (exc.type = "ConfigError" /\ idx = 0 /\ log = <<>>)
    /\ ~Terminal => ENABLED Next
    /\ pc = "returned" =>
            /\ resumen # PyNone
            /\ idx = Len(Tabla)
            /\ Len(log) = Len(Tabla)
            /\ \A j \in 1..Len(log) : log[j].nombre = Tabla[j][NombreCol]

\* C3: whatever fails at either request or while the body is streamed,
\* descargar raises DownloadError carrying the cause; no RequestException
\* leaves descargar, and none leaves procesar.
C3_SoloDownloadError ==
    /\ pc \in {"d_raised", "raised"} => ~IsInstance(exc.type, "RequestException")
    /\ pc = "d_raised" =>
            /\ IsInstance(exc.cause, "RequestException") =>
                    /\ exc.type = "DownloadError"
                    /\ exc.text \in {"No se pudo iniciar la descarga para",
                                     "No se pudo confirmar la descarga para",
                                     "No se pudo escribir el archivo temporal en"}
            /\ exc.text \in {"No se pudo iniciar la descarga para",
                             "No se pudo confirmar la descarga para"}
                    => (exc.type = "DownloadError" /\ IsInstance(exc.cause, "RequestException"))
            /\ exc.text = "No se pudo escribir el archivo temporal en"
                    => (exc.type = "DownloadError" /\ IsInstance(exc.cause, "OSError"))

\* the connection broke while the body was being read
C3_Witness ==
    /\ pc = "d_raised"
    /\ exc.type = "DownloadError"
    /\ exc.cause = "ChunkedEncodingError"

\* C4: with a callback set, it is invoked once per row, in row order, with
\* the row's outcome, after the outcome is decided and before the next row
\* is touched; after procesar returns it has been invoked total times.
C4_CallbackPorFila ==
    has_callback =>
        /\ Len(calls) = idx
        /\ \A j \in 1..Len(calls) :
                /\ calls[j].current = j
                /\ calls[j].total = Len(Tabla)
                /\ calls[j].item_name = Tabla[j][NombreCol]
                /\ j <= Len(log)
                /\ calls[j].status = IF log[j].level = "info" THEN "success" ELSE "error"
        /\ Len(log) <= Len(calls) + 1
        /\ loc.set => loc.nombre = Tabla[Len(calls) + 1][NombreCol]
        /\ (reqs # <<>> \/ dl # NoCall) => loc.set
        /\ pc = "returned" => Len(calls) = total

\* two rows reported, the first as an error, the second as a success
C4_Witness ==
    /\ has_callback
    /\ pc = "returned"
    /\ Len(calls) = 2
    /\ calls[1].status = "error"
    /\ calls[2].status = "success"

\* C5: when a setup step fails (a folder cannot be created, the Excel file
\* is missing or unreadable, a required column is absent) procesar raises
\* ConfigError and nothing of a row has happened: no request, no callback,
\* no row log, no file, no summary. ConfigError has no other origin.
C5_SetupFalla ==
    /\ SetupFault =>
            /\ pc \in {"start", "cargar", "raised"}
            /\ pc = "cargar" => env.mkdir_fail = "none"
            /\ pc = "raised" => exc.type = "ConfigError"
            /\ reqs = <<>> /\ calls = <<>> /\ log = <<>>
            /\ loc = NoLocals /\ dl = NoCall /\ idx = 0
            /\ Files = {}
            /\ resumen = PyNone
    /\ (pc = "raised" /\ exc.type = "ConfigError") => SetupFault

\* the second folder could not be created although the workbook is valid
\* and has rows
C5_Witness ==
    /\ pc = "raised"
    /\ exc.type = "ConfigError"
    /\ env.mkdir_fail = NonOsdeSubdir
    /\ env.excel.state = "ok"
    /\ ColumnasObligatorias \subseteq env.excel.columns
    /\ Len(env.excel.rows) = 2

\* C6: a row whose link has no resource id is recorded as an error (warning
\* logged, fallos incremented, callback status "error") and the loop goes on
\* without any request and without any file for that row.
C6_SinLinkSinDescarga ==
    (~SetupFault /\ pc \notin {"start", "cargar"}) =>
        /\ (loc.set /\ FilaSinId(idx + 1)) =>
                /\ pc = "report"
                /\ loc.status = "error"
                /\ loc.error_msg = [text |-> "No se pudo leer el link de la planilla para",
                                    arg |-> Tabla[idx + 1][NombreCol]]
                /\ reqs = <<>> /\ dl = NoCall
                /\ Len(log) = idx + 1
                /\ log[idx + 1].level = "warning"
        /\ \A j \in 1..Len(log) : FilaSinId(j) => log[j].level = "warning"
        /\ fallos = Cardinality(LogFallos)
        /\ \A j \in 1..Len(calls) : FilaSinId(j) => calls[j].status = "error"
        /\ \A q \in Files : \E j \in 1..Len(Tabla) :
                /\ j <= idx + 1
                /\ ~FilaSinId(j)
                /\ q.name \in {NameWithSuffix(PrefijoArchivo \o StrOf(Tabla[j][NombreCol]), sfx) :
                                 sfx \in {DotTmp, DotPdf}}

\* row 1 had no usable link and was counted as a failure; row 2 is being
\* fetched
C6_Witness ==
    /\ pc = "d_write"
    /\ idx = 1
    /\ FilaSinId(1)
    /\ fallos = 1
    /\ Len(reqs) = 1
    /\ Files = {}

HasWarningCookie(cookies) ==
    \E j \in 1..Len(cookies) : StartsWith(cookies[j].key, DownloadWarning)

\* C7: one GET with the id; a second GET with id and confirm=<token> if and
\* only if the first response succeeded and carries a cookie whose name
\* starts with download_warning; never a third request.
C7_SecuenciaDePeticiones ==
    /\ Len(reqs) <= 2
    /\ Len(reqs) >= 1 => (loc.set /\ reqs[1] = [id |-> loc.file_id, confirm |-> PyNone])
    /\ Len(reqs) = 2 => (reqs[2].id = loc.file_id /\ reqs[2].confirm.type = "str")
    /\ pc = "d_get2" => Len(reqs) = 1
    /\ (pc = "d_write" /\ Len(reqs) = 1) => ~HasWarningCookie(dl.response.cookies)

---------------------------------------------------------------------------
(* The pure helpers one call at a time: extraer_extension_de_respuesta,
   detectar_extension_por_contenido on a readable file, and
   seleccionar_carpeta_destino. *)

Attachment == <<"a", "t", "t", "a", "c", "h", "m", "e", "n", "t">>
Inline == <<"i", "n", "l", "i", "n", "e">>
PlainOpen == <<";", " ", "f", "i", "l", "e", "n", "a", "m", "e", "=", "\"">>
PlainClose == <<"\"">>
StarOpen == <<";", " ", "f", "i", "l", "e", "n", "a", "m", "e", "*", "=", "U", "T", "F", "-", "8", "'", "'">>

\* file names: a stem, then an extension as sent and as expected back
Stems == {<<"b">>, <<"a", ".", "b">>}
Exts == {[raw |-> <<".", "P", "N", "G">>, lower |-> <<".", "p", "n", "g">>],
         [raw |-> <<".", "p", "d", "f">>, lower |-> <<".", "p", "d", "f">>],
         [raw |-> <<".", "J", "p", "G">>, lower |-> <<".", "j", "p", "g">>],
         [raw |-> <<".", "x", "l", "s", "x">>, lower |-> <<".", "x", "l", "s", "x">>]}

\* a Content-Disposition header: which filename parameters it carries and
\* in which order; absent: the response has no such header
HeaderCases ==
    {[absent |-> TRUE]}
        \cup {[absent |-> FALSE, disp |-> d, stem |-> st, ext |-> e,
               plain |-> q, star |-> s, star_first |-> f] :
                d \in {Attachment, Inline}, st \in Stems, e \in Exts,
                q \in BOOLEAN, s \in BOOLEAN, f \in BOOLEAN}

HeaderText(c) ==
    c.disp
        \o (IF c.star /\ c.star_first THEN StarOpen \o c.stem \o c.ext.raw ELSE <<>>)
        \o (IF c.plain THEN PlainOpen \o c.stem \o c.ext.raw \o PlainClose ELSE <<>>)
        \o (IF c.star /\ ~c.star_first THEN StarOpen \o c.stem \o c.ext.raw ELSE <<>>)

ResponseWith(c) ==
    [cookies |-> <<>>,
     content_disposition |-> IF c.absent THEN PyNone ELSE PyStr(HeaderText(c)),
     body |-> <<>>]

MaxSniffLen == 2
ByteAlphabet == {37, 80, 68, 70, 255, 216, 137, 78, 71, 75, 3, 4}
Magics == {MagicPdf, MagicJpg, MagicPng, MagicZip}
Padding == <<0, 1, 2, 3, 4, 5, 6, 7>>

\* file contents: every short file over the signature bytes, every prefix
\* of a signature, a signature followed by more bytes, and a signature
\* that only starts after the eighth byte
SniffArgs ==
    StringsUpTo(ByteAlphabet, MaxSniffLen)
        \cup {SubSeq(m, 1, n) : m \in Magics, n \in 0..2}
        \cup {SubSeq(m, 1, 3) : m \in Magics \ {MagicJpg}}
        \cup {m \o tail : m \in Magics, tail \in {<<0>>, <<37, 80, 68, 70>>, Padding}}
        \cup {Padding \o m : m \in Magics}
        \cup {<<b>> \o m : b \in {0, 255}, m \in Magics}

CatAlphabet == {"o", "s", "d", "e", "N", "O", "n", " "}
CatExamples == {<<"O", "S", "D", "E">>,
                <<"n", "o", " ", "o", "s", "d", "e">>,
                <<"O", "s", "d", "e", " ", "p", "e", "r", "o", " ", "n", "o">>,
                <<"o", "s", "d", "e">>,
                <<"N", "O">>,
                <<"O", "S", "D", "E", " ", "N", "O", "R", "T", "E">>,
                <<"o", "S", "d", "E", " ">>,
                <<" ", "O", "s", "d", "e">>,
                <<"o", "s", "d", " ", "e">>,
                <<"n", "a", "n">>}
CatArgs ==
    {PyNone, PyNaN}
        \cup {PyStr(s) : s \in CatExamples}
        \cup {PyStr(s) : s \in StringsUpTo(CatAlphabet, 2)}

\* a helper and the argument it is about to be called with
PureStart(fn, arg) ==
    pure_call = [fn |-> fn, arg |-> arg, called |-> FALSE, ret |-> PyNone]

PureInit ==
    /\ \/ \E c \in HeaderCases : PureStart("extraer_extension_de_respuesta", c)
       \/ \E b \in SniffArgs : PureStart("detectar_extension_por_contenido", b)
       \/ \E v \in CatArgs : PureStart("seleccionar_carpeta_destino", v)
    /\ LinkIdle
    /\ TasksIdle
    /\ BatchIdle

HeaderCall ==
    /\ pure_call.fn = "extraer_extension_de_respuesta"
    /\ ~pure_call.called
    /\ pure_call' = [pure_call EXCEPT
                        !.called = TRUE,
                        !.ret = extraer_extension_de_respuesta(ResponseWith(pure_call.arg))]
    /\ UNCHANGED <<lvars, tvars, bvars>>

SniffCall ==
    /\ pure_call.fn = "detectar_extension_por_contenido"
    /\ ~pure_call.called
    /\ pure_call' = [pure_call EXCEPT
                        !.called = TRUE,
                        !.ret = PyStr(detectar_extension_por_contenido(pure_call.arg))]
    /\ UNCHANGED <<lvars, tvars, bvars>>

ClasificarCall ==
    /\ pure_call.fn = "seleccionar_carpeta_destino"
    /\ ~pure_call.called
    /\ pure_call' = [pure_call EXCEPT
                        !.called = TRUE,
                        !.ret = seleccionar_carpeta_destino(pure_call.arg, OsdePath, NoOsdePath)]
    /\ UNCHANGED <<lvars, tvars, bvars>>

PureNext == HeaderCall \/ SniffCall \/ ClasificarCall

SpecPure == PureInit /\ [][PureNext]_vars

PureReturned(fn) == pure_call.fn = fn /\ pure_call.called

---------------------------------------------------------------------------
(* Claims about the pure helpers, checked under SpecPure *)

\* C11: header sniffing returns the lower-cased extension of the file name
\* whenever the header carries a filename="..." or a filename*=... parameter
\* (also when only filename*= is there), and nothing when it carries neither.
C11_HeaderSniff ==
    PureReturned("extraer_extension_de_respuesta") =>
        pure_call.ret =
            IF ~pure_call.arg.absent /\ (pure_call.arg.plain \/ pure_call.arg.star)
            THEN PyStr(pure_call.arg.ext.lower)
            ELSE PyNone

\* the first bytes of a file, read position by position
BytesStart(b, sig) == Len(b) >= Len(sig) /\ \A j \in 1..Len(sig) : b[j] = sig[j]

\* C12: byte sniffing answers from the first bytes only: .pdf for 25 50 44 46,
\* else .jpg for FF D8, else .png for 89 50 4E 47, else .xlsx for 50 4B 03 04,
\* and the empty result otherwise (a file shorter than a signature included);
\* nothing after the eighth byte matters.
C12_ByteSniff ==
    PureReturned("detectar_extension_por_contenido") =>
        /\ pure_call.ret =
            PyStr(IF BytesStart(pure_call.arg, <<37, 80, 68, 70>>) THEN <<".", "p", "d", "f">>
                  ELSE IF BytesStart(pure_call.arg, <<255, 216>>) THEN <<".", "j", "p", "g">>
                  ELSE IF BytesStart(pure_call.arg, <<137, 80, 78, 71>>) THEN <<".", "p", "n", "g">>
                  ELSE IF BytesStart(pure_call.arg, <<80, 75, 3, 4>>) THEN <<".", "x", "l", "s", "x">>
                  ELSE <<>>)
        /\ Len(Firma(pure_call.arg)) <= 8
        /\ pure_call.ret = PyStr(detectar_extension_por_contenido(Firma(pure_call.arg)))

\* a PDF of more than eight bytes was recognised
C12_Witness ==
    /\ PureReturned("detectar_extension_por_contenido")
    /\ pure_call.arg = MagicPdf \o Padding
    /\ pure_call.ret = PyStr(DotPdf)

\* text contains word, letter case ignored
ContainsCI(text, word) ==
    \E k \in 1..(Len(text) - Len(word) + 1) :
        \A j \in 1..Len(word) :
            \E h \in 1..26 : text[k + j - 1] \in {LowerCase[h], UpperCase[h]}
                             /\ word[j] = UpperCase[h]

\* C16: seleccionar_carpeta_destino answers the OSDE folder exactly when the
\* upper-cased category text contains "OSDE" and does not contain "NO":
\* "OSDE" goes to OSDE, "no osde" and "Osde pero no" to the other folder,
\* and the answer depends on the value alone.
C16_Clasificacion ==
    PureReturned("seleccionar_carpeta_destino") =>
        /\ pure_call.ret \in {OsdePath, NoOsdePath}
        /\ pure_call.ret = OsdePath <=>
                /\ ContainsCI(StrOf(pure_call.arg), <<"O", "S", "D", "E">>)
                /\ ~ContainsCI(StrOf(pure_call.arg), <<"N", "O">>)
        /\ pure_call.arg = PyStr(<<"O", "S", "D", "E">>) => pure_call.ret = OsdePath
        /\ pure_call.arg = PyStr(<<"n", "o", " ", "o", "s", "d", "e">>) => pure_call.ret = NoOsdePath
        /\ pure_call.arg = PyStr(<<"O", "s", "d", "e", " ", "p", "e", "r", "o", " ", "n", "o">>) => pure_call.ret = NoOsdePath
        /\ pure_call.ret = seleccionar_carpeta_destino(pure_call.arg, OsdePath, NoOsdePath)

\* "Osde pero no" was classified, and went to the non-OSDE folder
C16_Witness ==
    /\ PureReturned("seleccionar_carpeta_destino")
    /\ pure_call.arg = PyStr(<<"O", "s", "d", "e", " ", "p", "e", "r", "o", " ", "n", "o">>)
    /\ pure_call.ret = NoOsdePath

---------------------------------------------------------------------------
(* Claims about the steps of descargar, checked under Spec *)

\* the extension by the first bytes, read position by position
SniffRef(b) ==
    IF BytesStart(b, <<37, 80, 68, 70>>) THEN <<".", "p", "d", "f">>
    ELSE IF BytesStart(b, <<255, 216>>) THEN <<".", "j", "p", "g">>
    ELSE IF BytesStart(b, <<137, 80, 78, 71>>) THEN <<".", "p", "n", "g">>
    ELSE IF BytesStart(b, <<80, 75, 3, 4>>) THEN <<".", "x", "l", "s", "x">>
    ELSE <<>>

\* what the header of the modelled responses says about the extension
HeaderRef(h) ==
    IF h = PyNone THEN PyNone
    ELSE IF h = PyStr(HeaderPng) THEN PyStr(<<".", "p", "n", "g">>)
    ELSE PyStr(<<>>)

NadaDelHeader(v) == v = PyNone \/ v = PyStr(<<>>)

\* C13: the extension is chosen by strict fallback. A non-empty extension
\* from the header is used as it is and the bytes are not sniffed; the bytes
\* are sniffed only when the header gives nothing; when both give nothing
\* the extension is .pdf and the file is finished by a plain rename.
C13_Fallback ==
    [][ /\ (pc = "d_write" /\ pc' = "d_sniff") =>
                dl'.extension_orig = HeaderRef(dl.response.content_disposition)
        /\ (pc = "d_sniff" /\ ~NadaDelHeader(dl.extension_orig)) =>
                /\ pc' = "d_final"
                /\ dl'.extension_orig = dl.extension_orig
        /\ (pc = "d_sniff" /\ NadaDelHeader(dl.extension_orig) /\ pc' = "d_final") =>
                dl'.extension_orig =
                    PyStr(IF SniffRef(fs[TempPath(dl)].bytes) = <<>>
                          THEN <<".", "p", "d", "f">>
                          ELSE SniffRef(fs[TempPath(dl)].bytes))
        /\ (pc = "d_sniff" /\ pc' # "d_final") =>
                (NadaDelHeader(dl.extension_orig) /\ pc' = "d_raised")
        /\ (pc = "d_final" /\ pc' = "report" /\ dl.extension_orig = PyStr(DotPdf)) =>
                fs'[DestinoFinal(dl)] = fs[TempPath(dl)]
      ]_vars

\* the header said .png while the bytes are a PDF: the header won
C13_Witness ==
    /\ pc = "d_final"
    /\ dl.extension_orig = PyStr(DotPng)
    /\ fs[TempPath(dl)] = Raw(BodyPdf)

\* C14: only .jpg and .png are re-encoded. For .pdf (the default included)
\* and for any other extension the temporary file is renamed: the final
\* file holds the fetched bytes unchanged and the temporary file is gone.
C14_Normalizacion ==
    [][ /\ (pc = "d_write" /\ pc' = "d_sniff") =>
                fs'[TempPath(dl)] = Raw(dl.response.body)
        /\ (pc = "d_final" /\ pc' = "report") =>
                /\ TempPath(dl) \notin DOMAIN fs'
                /\ DestinoFinal(dl) \in DOMAIN fs'
                /\ IF dl.extension_orig.s \in {<<".", "j", "p", "g">>, <<".", "p", "n", "g">>}
                   THEN fs'[DestinoFinal(dl)] = PdfOf(fs[TempPath(dl)].bytes)
                   ELSE fs'[DestinoFinal(dl)] = fs[TempPath(dl)]
                /\ \A q \in DOMAIN fs \ {TempPath(dl), DestinoFinal(dl)} :
                        q \in DOMAIN fs' /\ fs'[q] = fs[q]
      ]_vars

\* a spreadsheet (.xlsx by its bytes) was saved under the .pdf name as it came
C14_Witness ==
    /\ pc = "report"
    /\ loc.status = "success"
    /\ \E q \in Files : fs[q] = Raw(BodyZip)
    /\ \A q \in Files : fs[q].kind = "raw" /\ NameSuffix(q.name) = DotPdf

\* C15: every successful row leaves its file at
\* <folder of the row's group>/<prefix> <period> <display name>.pdf: the
\* name ends in .pdf, the folder is OSDE exactly for a group A row, and the
\* name contains the row's whole display name.
C15_RutaDeSalida ==
    \A j \in 1..Len(log) :
        log[j].level = "info" =>
            /\ log[j].msg.arg \in DOMAIN fs
            /\ log[j].msg.arg.dir = OsdeSubdir <=>
                    /\ ContainsCI(StrOf(Tabla[j][CategoriaCol]), <<"O", "S", "D", "E">>)
                    /\ ~ContainsCI(StrOf(Tabla[j][CategoriaCol]), <<"N", "O">>)
            /\ log[j].msg.arg.dir \in {OsdeSubdir, NonOsdeSubdir}
            /\ log[j].msg.arg.name =
                    PrefijoArchivo \o StrOf(Tabla[j][NombreCol]) \o <<".", "p", "d", "f">>


---------------------------------------------------------------------------
(* Claims about the outcome of a row and the counters, checked under Spec *)

CallsFallidas == {j \in 1..Len(calls) : calls[j].status = "error"}

\* C17: no row-scoped error is swallowed: the callback's status of a row is
\* "error" iff the row was counted in fallos, an error outcome carries the
\* non-empty message of the unresolvable link or of the DownloadError, and
\* a success outcome carries no message.
C17_NingunErrorTragado ==
    has_callback =>
        /\ fallos = Cardinality(CallsFallidas)
                        + (IF pc = "report" /\ loc.status = "error" THEN 1 ELSE 0)
        /\ \A j \in 1..Len(calls) :
                /\ calls[j].status \in {"success", "error"}
                /\ calls[j].status = "error" <=> j \in LogFallos
                /\ calls[j].status = "error" =>
                        /\ calls[j].error_msg # PyNone
                        /\ calls[j].error_msg = log[j].msg
                        /\ calls[j].error_msg.text # ""
                        /\ FilaSinId(j) <=> calls[j].error_msg.text
                                                = "No se pudo leer el link de la planilla para"
                /\ calls[j].status = "success" => calls[j].error_msg = PyNone

\* the first row failed while its file was being finished, the second row
\* was saved; both have been reported
C17_Witness ==
    /\ has_callback
    /\ Len(calls) = 2
    /\ calls[1].status = "error"
    /\ calls[1].error_msg # PyNone
    /\ calls[1].error_msg.text = "No se pudo guardar el archivo final en"
    /\ calls[2].status = "success"
    /\ fallos = 1

\* C18 as stated: from the creation of the counters to completion,
\* exitos + fallos == total in every state.
C18_AsStated ==
    pc \in {"loop", "d_get1", "d_get2", "d_write", "d_sniff", "d_final", "d_raised",
            "report", "returned"}
        => exitos + fallos = total

\* C18: in every state of a run exitos + fallos is the number of rows whose
\* outcome has been decided, never more than total, and it equals total
\* when procesar returns.
C18_ContadoresCuadran ==
    pc \notin {"start", "cargar"} =>
        /\ exitos + fallos = Len(log)
        /\ idx <= Len(log) /\ Len(log) <= idx + 1
        /\ Len(log) = idx + 1 <=> pc = "report"
        /\ exitos + fallos <= total
        /\ pc = "raised" => exitos + fallos <= total
        /\ pc = "returned" => exitos + fallos = total

\* one row saved, the next one still being fetched
C18_Witness ==
    /\ pc = "d_write"
    /\ total = 2
    /\ exitos = 1
    /\ fallos = 0

\* C19: whenever the rename/convert step of descargar fails, the temporary
\* file is deleted if it exists and the failure leaves descargar as
\* DownloadError: no temporary file of the row remains.
C19_TemporalBorrado ==
    [][(pc = "d_final" /\ pc' = "d_raised") =>
            /\ exc'.type = "DownloadError"
            /\ ~Exists(fs', TempPath(dl))]_vars


---------------------------------------------------------------------------
(* app.py: create_upload_file and run_processor_task with several tasks in
   flight. A background task runs in a worker thread of its own, so the
   statements of two tasks interleave and a reader of tasks_status sees the
   state between any two of them. procesar is reduced to what the task sees
   of it: a setup that may raise, then for each row, in order, an outcome
   handed to the callback, or an exception that leaves it. *)

TaskIds == {"t1", "t2"}
MaxTaskRows == 2

RowAna == [nombre |-> PyStr(<<"a", "n", "a">>), category |-> "OSDE"]
RowLuz == [nombre |-> PyStr(<<"l", "u", "z">>), category |-> "NO OSDE"]
\* a row whose name cell is empty: pandas reads NaN
RowSinNombre == [nombre |-> PyNaN, category |-> "NO OSDE"]
TaskRows == {RowAna, RowLuz, RowSinNombre}

\* the rows of an uploaded workbook
Uploads == UNION {[1..n -> TaskRows] : n \in 0..MaxTaskRows}

\* the assignment of the summary forgotten
ResultadoPublicado_omitido(result) == PyNone

\* tasks_status[task_id].result = result
ResultadoPublicado(result) == result

\* status and error_msg as procesar hands them to the callback
RowOutcomes ==
    {[status |-> "success", error_msg |-> PyNone],
     [status |-> "error", error_msg |-> [text |-> "No se pudo iniciar la descarga para"]]}

\* TaskProgress(task_id=..., status=...): every other field at its default,
\* the two lists fresh for each instance
TaskProgress(task_id, status) ==
    [task_id |-> task_id, status |-> status, total |-> 0, current |-> 0,
     last_item |-> PyNone, processed_items |-> <<>>, errors |-> <<>>,
     result |-> PyNone, zip_url |-> PyNone]

ProcessedItem(name, status, category, error_msg) ==
    [name |-> name, status |-> status, category |-> category, error_msg |-> error_msg]

\* name: str as pydantic validates it: a str is taken as it is; a float is
\* turned into its text by pydantic 1 and refused by pydantic 2
ValidarNombre(v) ==
    IF v.type = "str" THEN {v} ELSE {PyStr(StrOf(v)), [type |-> "ValidationError"]}

NoArgs == [set |-> FALSE]

\* no upload with this id yet
NoRun ==
    [pc |-> "none", rows |-> <<>>, i |-> 0, exitos |-> 0, fallos |-> 0,
     args |-> NoArgs, exc |-> "none", result |-> PyNone,
     upload |-> "none", dir |-> "none"]

\* d[k] = v on a dict
DictSet(d, k, v) == [u \in DOMAIN d \cup {k} |-> IF u = k THEN v ELSE d[u]]

\* the item appended to the list of every task, as with one list object
\* shared by all TaskProgress instances
Anexar_compartida(ts, task_id, item) ==
    [u \in DOMAIN ts |-> [ts[u] EXCEPT !.processed_items = Append(@, item)]]

\* tasks_status[task_id].processed_items.append(item)
Anexar(ts, task_id, item) ==
    [ts EXCEPT ![task_id].processed_items = Append(@, item)]

\* status == "error" and error_msg
ConMensaje(status, error_msg) ==
    status = "error" /\ error_msg # PyNone /\ error_msg.text # ""

TasksInit ==
    /\ app_imports \in {"backend", "root"}
    /\ tasks_status = <<>>
    /\ task_run = [t \in TaskIds |-> NoRun]
    /\ LinkIdle
    /\ PureIdle
    /\ BatchIdle

\* POST /process/ with an Excel file: the upload is saved, the task is
\* registered as pending and queued (os.urandom gives an id not in use)
create_upload_file(t, rows) ==
    /\ task_run[t].pc = "none"
    /\ t \notin DOMAIN tasks_status
    /\ tasks_status' = DictSet(tasks_status, t, TaskProgress(t, "pending"))
    /\ task_run' = [task_run EXCEPT ![t] = [NoRun EXCEPT !.pc = "queued", !.rows = rows,
                                                          !.upload = "saved"]]
    /\ UNCHANGED <<lvars, pvars, app_imports, bvars>>

\* run_processor_task starts: status = "running"
IniciarTarea(t) ==
    /\ task_run[t].pc = "queued"
    /\ tasks_status' = [tasks_status EXCEPT ![t].status = "running"]
    /\ task_run' = [task_run EXCEPT ![t].pc = "mkdir"]
    /\ UNCHANGED <<lvars, pvars, app_imports, bvars>>

\* task_output_dir.mkdir(exist_ok=True), outside the try: an error leaves
\* run_processor_task
CrearCarpetaTarea(t) ==
    /\ task_run[t].pc = "mkdir"
    /\ \E o \in {"none", "FileNotFoundError"} :
            task_run' = [task_run EXCEPT ![t] =
                            IF o = "none" THEN [@ EXCEPT !.pc = "config", !.dir = "made"]
                            ELSE [@ EXCEPT !.pc = "crashed", !.exc = o]]
    /\ UNCHANGED <<lvars, pvars, app_imports, tasks_status, bvars>>

\* DownloadConfig(excel_path=..., output_dir=..., mes=mes): the dataclass
\* of src/models/config.py has no field mes
Configurar(t) ==
    /\ task_run[t].pc = "config"
    /\ task_run' = [task_run EXCEPT ![t] =
                        IF app_imports = "backend" THEN [@ EXCEPT !.pc = "procesar"]
                        ELSE [@ EXCEPT !.pc = "except", !.exc = "TypeError"]]
    /\ UNCHANGED <<lvars, pvars, app_imports, tasks_status, bvars>>

\* PlanillaProcessor(config, progress_callback=...).procesar() up to the loop
ProcesarSetup(t) ==
    /\ task_run[t].pc = "procesar"
    /\ \E o \in {"none", "ConfigError"} :
            task_run' = [task_run EXCEPT ![t] =
                            IF o = "none" THEN [@ EXCEPT !.pc = "loop", !.i = 0,
                                                         !.exitos = 0, !.fallos = 0]
                            ELSE [@ EXCEPT !.pc = "except", !.exc = o]]
    /\ UNCHANGED <<lvars, pvars, app_imports, tasks_status, bvars>>

\* one row of procesar: its outcome is decided and the callback is entered,
\* or an exception other than DownloadError leaves procesar
ProcesarFila(t) ==
    /\ task_run[t].pc = "loop"
    /\ task_run[t].i < Len(task_run[t].rows)
    /\ LET r == task_run[t]
           row == r.rows[r.i + 1]
       IN  \/ \E o \in RowOutcomes :
                task_run' = [task_run EXCEPT ![t] =
                    [@ EXCEPT !.pc = "cb92",
                              !.exitos = IF o.status = "success" THEN @ + 1 ELSE @,
                              !.fallos = IF o.status = "error" THEN @ + 1 ELSE @,
                              !.args = [set |-> TRUE, current |-> CallbackCurrent(r.i),
                                        total |-> Len(r.rows), item_name |-> row.nombre,
                                        status |-> o.status, error_msg |-> o.error_msg,
                                        category |-> row.category]]]
           \/ task_run' = [task_run EXCEPT ![t] =
                    [@ EXCEPT !.pc = "except", !.exc = "PermissionError"]]
    /\ UNCHANGED <<lvars, pvars, app_imports, tasks_status, bvars>>

\* progress_callback, one statement at a time
progress_callback(t) ==
    LET r == task_run[t]
        a == r.args
    IN  /\ r.pc \in {"cb92", "cb93", "cb94", "cb97", "cb101"}
        /\ CASE r.pc = "cb92" ->
                    /\ tasks_status' = [tasks_status EXCEPT ![t].current = a.current]
                    /\ task_run' = [task_run EXCEPT ![t].pc = "cb93"]
             [] r.pc = "cb93" ->
                    /\ tasks_status' = [tasks_status EXCEPT ![t].total = a.total]
                    /\ task_run' = [task_run EXCEPT ![t].pc = "cb94"]
             [] r.pc = "cb94" ->
                    /\ tasks_status' = [tasks_status EXCEPT ![t].last_item = a.item_name]
                    /\ task_run' = [task_run EXCEPT ![t].pc = "cb97"]
             [] r.pc = "cb97" ->
                    \E name \in ValidarNombre(a.item_name) :
                        IF name.type = "ValidationError"
                        THEN /\ tasks_status' = tasks_status
                             /\ task_run' = [task_run EXCEPT ![t] =
                                    [@ EXCEPT !.pc = "except", !.exc = "ValidationError",
                                              !.args = NoArgs]]
                        ELSE /\ tasks_status' = Anexar(tasks_status, t,
                                    ProcessedItem(name, a.status, a.category, a.error_msg))
                             /\ task_run' = [task_run EXCEPT ![t].pc = "cb101"]
             [] r.pc = "cb101" ->
                    /\ tasks_status' =
                            IF ConMensaje(a.status, a.error_msg)
                            THEN [tasks_status EXCEPT ![t].errors =
                                    Append(@, [item_name |-> StrOf(a.item_name),
                                               error_msg |-> a.error_msg])]
                            ELSE tasks_status
                    /\ task_run' = [task_run EXCEPT ![t] =
                            [@ EXCEPT !.pc = "loop", !.i = @ + 1, !.args = NoArgs]]
        /\ UNCHANGED <<lvars, pvars, app_imports, bvars>>

\* procesar returns its summary after the last row
ProcesarRetorna(t) ==
    /\ task_run[t].pc = "loop"
    /\ task_run[t].i = Len(task_run[t].rows)
    /\ LET r == task_run[t]
       IN  task_run' = [task_run EXCEPT ![t] =
                [r EXCEPT !.pc = "archive",
                          !.result = [total |-> Len(r.rows), exitos |-> r.exitos,
                                      fallos |-> r.fallos]]]
    /\ UNCHANGED <<lvars, pvars, app_imports, tasks_status, bvars>>

\* shutil.make_archive of the task's folder
Archivar(t) ==
    /\ task_run[t].pc = "archive"
    /\ \E o \in {"none", "OSError"} :
            task_run' = [task_run EXCEPT ![t] =
                            IF o = "none" THEN [@ EXCEPT !.pc = "l121"]
                            ELSE [@ EXCEPT !.pc = "except", !.exc = o]]
    /\ UNCHANGED <<lvars, pvars, app_imports, tasks_status, bvars>>

\* status = "completed", then result, then zip_url
Completar(t) ==
    LET r == task_run[t]
    IN  /\ r.pc \in {"l121", "l122", "l123"}
        /\ CASE r.pc = "l121" ->
                    /\ tasks_status' = [tasks_status EXCEPT ![t].status = "completed"]
                    /\ task_run' = [task_run EXCEPT ![t].pc = "l122"]
             [] r.pc = "l122" ->
                    /\ tasks_status' = [tasks_status EXCEPT ![t].result = ResultadoPublicado(r.result)]
                    /\ task_run' = [task_run EXCEPT ![t].pc = "l123"]
             [] r.pc = "l123" ->
                    /\ tasks_status' = [tasks_status EXCEPT ![t].zip_url =
                                            [type |-> "url", download |-> t]]
                    /\ task_run' = [task_run EXCEPT ![t].pc = "finally"]
        /\ UNCHANGED <<lvars, pvars, app_imports, bvars>>

\* except Exception: status = "failed", then the critical error recorded
Fallar(t) ==
    LET r == task_run[t]
    IN  /\ r.pc \in {"except", "l128"}
        /\ CASE r.pc = "except" ->
                    /\ tasks_status' = [tasks_status EXCEPT ![t].status = "failed"]
                    /\ task_run' = [task_run EXCEPT ![t].pc = "l128"]
             [] r.pc = "l128" ->
                    /\ tasks_status' = [tasks_status EXCEPT ![t].errors =
                                            Append(@, [critico |-> r.exc])]
                    /\ task_run' = [task_run EXCEPT ![t].pc = "finally"]
        /\ UNCHANGED <<lvars, pvars, app_imports, bvars>>

\* finally: the upload is deleted; the task's folder too once completed
Limpiar(t) ==
    /\ task_run[t].pc = "finally"
    /\ task_run' = [task_run EXCEPT ![t] =
            [@ EXCEPT !.pc = "end", !.upload = "deleted",
                      !.dir = IF tasks_status[t].status = "completed" THEN "removed" ELSE @]]
    /\ UNCHANGED <<lvars, pvars, app_imports, tasks_status, bvars>>

TasksNext ==
    \E t \in TaskIds :
        \/ \E rows \in Uploads : create_upload_file(t, rows)
        \/ IniciarTarea(t)
        \/ CrearCarpetaTarea(t)
        \/ Configurar(t)
        \/ ProcesarSetup(t)
        \/ ProcesarFila(t)
        \/ progress_callback(t)
        \/ ProcesarRetorna(t)
        \/ Archivar(t)
        \/ Completar(t)
        \/ Fallar(t)
        \/ Limpiar(t)

SpecTasks == TasksInit /\ [][TasksNext]_vars


---------------------------------------------------------------------------
(* Claims about concurrent tasks, checked under SpecTasks *)

\* a step leaves the entry of every task that did not take it as it was
PasoAislado ==
    \A u \in DOMAIN tasks_status :
        task_run'[u] = task_run[u] => tasks_status'[u] = tasks_status[u]

\* the first k rows of task t as items of its list, whatever their outcome
FilasPropias(t, k) ==
    /\ k <= Len(task_run[t].rows)
    /\ \A j \in 1..k :
            LET item == tasks_status[t].processed_items[j]
                row == task_run[t].rows[j]
            IN  /\ item.name = PyStr(StrOf(row.nombre))
                /\ item.category = row.category

\* C20 as stated: a progress update changes only its own task's entry, and
\* at every moment processed_items is the task's own rows handled so far,
\* in order, with current == len(processed_items) <= total.
C20_AsStated ==
    /\ [][PasoAislado]_vars
    /\ [](\A t \in DOMAIN tasks_status :
            /\ FilasPropias(t, Len(tasks_status[t].processed_items))
            /\ tasks_status[t].current = Len(tasks_status[t].processed_items)
            /\ tasks_status[t].current <= tasks_status[t].total)

\* the callback of task t raised while building the item of its row
CallbackRoto(t) == task_run[t].exc = "ValidationError"

\* C20: concurrent tasks are isolated: a step of one task changes only that
\* task's entry; processed_items is a prefix, in row order, of the task's
\* own rows, as long as the rows whose callback reached the append;
\* len(processed_items) <= current <= len(processed_items) + 1, and
\* current == len(processed_items) <= total whenever the task is outside
\* its callback and the callback has not raised.
C20_TareasAisladas ==
    /\ [][PasoAislado]_vars
    /\ [](\A t \in DOMAIN tasks_status :
            LET ts == tasks_status[t]
                r == task_run[t]
                k == Len(ts.processed_items)
            IN  /\ FilasPropias(t, k)
                /\ k = r.i + (IF r.pc = "cb101" THEN 1 ELSE 0)
                /\ k <= ts.current /\ ts.current <= k + 1
                /\ (r.pc \notin {"cb93", "cb94", "cb97"} /\ ~CallbackRoto(t))
                        => ts.current = k
                /\ r.pc # "cb93" => ts.current <= ts.total
                /\ ts.total \in {0, Len(r.rows)}
                /\ ts.task_id = t)

\* both tasks inside their callbacks with different rows: t1 has set current
\* for its second row and not yet appended it, t2 has appended its first
C20_Witness ==
    /\ DOMAIN tasks_status = TaskIds
    /\ task_run["t1"].pc = "cb97"
    /\ tasks_status["t1"].current = 2
    /\ Len(tasks_status["t1"].processed_items) = 1
    /\ tasks_status["t1"].processed_items[1].name = RowAna.nombre
    /\ task_run["t2"].pc = "cb101"
    /\ Len(tasks_status["t2"].processed_items) = 1
    /\ tasks_status["t2"].processed_items[1].name = RowLuz.nombre


---------------------------------------------------------------------------
(* Claims about the files a run leaves behind, checked under Spec *)

\* the base path procesar builds for row j of the table
DestinoBaseDeFila(j) ==
    [dir |-> seleccionar_carpeta_destino(Tabla[j][CategoriaCol], OsdePath, NoOsdePath),
     name |-> PrefijoArchivo \o StrOf(Tabla[j][NombreCol])]

TempDeFila(j) == WithSuffix(DestinoBaseDeFila(j), DotTmp)
FinalDeFila(j) == WithSuffix(DestinoBaseDeFila(j), DotPdf)

\* no descargar is in progress
EntreFilas == pc \in {"report", "loop", "returned"}

\* rows recorded as a download error
FilasConError == {j \in 1..Len(log) : log[j].level = "error"}

\* C21: after a row is recorded as an error, whatever the step that failed,
\* no temporary .tmp file of that row remains in the destination folders.
C21_SinTemporales ==
    EntreFilas => \A j \in FilasConError : ~Exists(fs, TempDeFila(j))

\* every temporary file found between rows was left by a row recorded as
\* failed while writing the temporary file or while sniffing it
TemporalesHuerfanos ==
    EntreFilas =>
        \A q \in Files :
            NameSuffix(q.name) = DotTmp =>
                \E j \in FilasConError :
                    /\ TempDeFila(j) = q
                    /\ log[j].msg.text \in {"No se pudo escribir el archivo temporal en",
                                            "No se pudo detectar el tipo de archivo"}

\* rows whose file was saved
FilasExitosas == {j \in 1..Len(log) : log[j].level = "info"}

\* the .pdf files in the two destination folders
ArchivosDeSalida == {q \in Files : NameSuffix(q.name) = DotPdf}

NombresDistintos ==
    \A j, k \in 1..Len(Tabla) : j # k => Tabla[j][NombreCol] # Tabla[k][NombreCol]

\* C22: in a table of distinct display names no two saved rows map to the
\* same temporary or final path, so the file of a saved row is never
\* replaced by a later row, and when procesar returns the number of output
\* files in the two destination folders equals exitos.
C22_ExitoNoSePierde ==
    (~SetupFault /\ NombresDistintos) =>
        /\ \A j, k \in FilasExitosas :
                j # k => /\ TempDeFila(j) # TempDeFila(k)
                         /\ FinalDeFila(j) # FinalDeFila(k)
        /\ pc = "returned" => Cardinality(ArchivosDeSalida) = exitos

\* what holds for the saved rows: the path logged for the latest saved row
\* exists, and the output files are the final paths of the saved rows and
\* of the rows whose conversion left a partial file
ArchivosDeFilasTerminadas ==
    EntreFilas =>
        /\ \A q \in ArchivosDeSalida :
                \E j \in 1..Len(log) : q = FinalDeFila(j) /\ log[j].level # "warning"
        /\ \A j \in FilasExitosas : Exists(fs, FinalDeFila(j))
        /\ Cardinality(ArchivosDeSalida) <= Len(log)


---------------------------------------------------------------------------
(* Claims about the life of a task, checked under SpecTasks *)

TransicionesDeEstado ==
    {<<"pending", "running">>, <<"running", "completed">>, <<"running", "failed">>}

\* a step registers a task as pending or moves a status along an allowed
\* transition
PasoDeEstado ==
    \A t \in DOMAIN tasks_status' :
        IF t \in DOMAIN tasks_status
        THEN \/ tasks_status'[t].status = tasks_status[t].status
             \/ <<tasks_status[t].status, tasks_status'[t].status>> \in TransicionesDeEstado
        ELSE tasks_status'[t].status = "pending"

\* C23 as stated: the status moves only pending -> running -> completed or
\* pending -> running -> failed, and result and zip_url are set if and only
\* if the status is completed.
C23_AsStated ==
    /\ [][PasoDeEstado]_vars
    /\ [](\A t \in DOMAIN tasks_status :
            /\ tasks_status[t].result # PyNone <=> tasks_status[t].status = "completed"
            /\ tasks_status[t].zip_url # PyNone <=> tasks_status[t].status = "completed")

\* C23: the status moves only pending -> running -> completed or
\* pending -> running -> failed, completed and failed are never left;
\* result and zip_url are set only under completed, result first, and both
\* are set from the moment run_processor_task has assigned them: a
\* completed task lacks them only between those assignments.
C23_VidaDeLaTarea ==
    /\ [][PasoDeEstado]_vars
    /\ [](\A t \in DOMAIN tasks_status :
            LET ts == tasks_status[t]
                r == task_run[t]
            IN  /\ ts.status \in {"pending", "running", "completed", "failed"}
                /\ ts.result # PyNone => ts.status = "completed"
                /\ ts.zip_url # PyNone => (ts.status = "completed" /\ ts.result # PyNone)
                /\ ts.status = "completed" =>
                        /\ r.pc \in {"l122", "l123", "finally", "end"}
                        /\ ts.result = PyNone <=> r.pc = "l122"
                        /\ ts.zip_url = PyNone <=> r.pc \in {"l122", "l123"}
                        /\ ts.result # PyNone => ts.result = r.result
                /\ ts.status = "failed" => r.pc \in {"l128", "finally", "end"}
                /\ ts.status = "pending" <=> r.pc = "queued")

\* one task ended completed with its summary and its link, the other failed
C23_Witness ==
    /\ DOMAIN tasks_status = TaskIds
    /\ task_run["t1"].pc = "end"
    /\ tasks_status["t1"].status = "completed"
    /\ tasks_status["t1"].result # PyNone
    /\ tasks_status["t1"].result.total = 2
    /\ tasks_status["t1"].zip_url # PyNone
    /\ task_run["t2"].pc = "end"
    /\ tasks_status["t2"].status = "failed"

===========================================================================
